---- MODULE Spec2Model ----
(***************************************************************************)
(* Model of the two utility scripts of robo-rover-dora's models directory: *)
(*   models/scripts/check_all_models.py  - reports the IR and opset        *)
(*       versions of the ONNX models and their runtime compatibility;      *)
(*   models/export_to_onnx.py            - exports yolo12n.pt to ONNX.     *)
(* Standard output is a sequence of lines, a line a sequence of string     *)
(* tokens (the pieces an f-string concatenates).  Glyphs outside ASCII are *)
(* written as tokens naming their code point.                              *)
(***************************************************************************)
EXTENDS Integers, Sequences, FiniteSets, TLC

(* ------------------------------ bounds -------------------------------- *)
\* IR versions of the model files range over IRThreshold +/- IRSpread.
IRSpread == 2
\* Longest opset-import list of a model file.
MaxOpsetImports == 1

(* ------------------------ program constants --------------------------- *)
IRThreshold == 9
RuleWidth == 60
ExportOpset == 14

CheckMark == "U+2713"
CrossMark == "U+2717"
LessEq == "U+2264"

\* The dict of check_all_models.py, in insertion order (the order items() yields).
models ==
    << [name |-> "YOLO",  path |-> "../.cache/yolo/yolo12n.onnx"],
       [name |-> "OSNet", path |-> "../.cache/reid/osnet_x0_25.onnx"] >>

Paths == { models[k].path : k \in 1..Len(models) }

(* --------------------------- environment ------------------------------ *)
IRVersions == (IRThreshold - IRSpread)..(IRThreshold + IRSpread)
OpsetVersions == {14, 18, 21}

RECURSIVE SeqsUpTo(_, _)
SeqsUpTo(S, n) ==
    IF n = 0 THEN { <<>> }
    ELSE LET shorter == SeqsUpTo(S, n - 1)
         IN  shorter \cup { Append(s, x) : s \in shorter, x \in S }

OpsetImportLists == SeqsUpTo(OpsetVersions, MaxOpsetImports)

\* str(e) of the exceptions onnx.load raises on an existing file: a protobuf
\* decode error, and an OSError whose text quotes the path.
LoadErrorMessages(path) ==
    { <<"Error parsing message">>,
      <<"[Errno 13] Permission denied: '", path, "'">> }

\* str(e) of the IndexError raised by opset_import[0] on an empty list.
IndexErrorMessage == <<"list index out of range">>

\* What can be at a path: nothing, a file onnx.load rejects, or an ONNX model.
FileStates(path) ==
    { [kind |-> "missing", msg |-> <<>>, ir |-> 0, opsets |-> <<>>] }
    \cup { [kind |-> "unloadable", msg |-> m, ir |-> 0, opsets |-> <<>>] :
             m \in LoadErrorMessages(path) }
    \cup { [kind |-> "model", msg |-> <<>>, ir |-> v, opsets |-> o] :
             v \in IRVersions, o \in OpsetImportLists }

(* ---------------------------- formatting ------------------------------ *)
DigitChar == << "0", "1", "2", "3", "4", "5", "6", "7", "8", "9" >>

RECURSIVE Digits(_)
Digits(n) ==
    IF n < 10 THEN << DigitChar[n + 1] >>
    ELSE Digits(n \div 10) \o << DigitChar[(n % 10) + 1] >>

\* Python's str(int), as the f-strings apply it: one token per character.
Str(n) == IF n < 0 THEN << "-" >> \o Digits(-n) ELSE Digits(n)

\* "=" * 60
Rule == [ k \in 1..RuleWidth |-> "=" ]

Blank == <<>>

VARIABLES
    fs,             \* path -> what is on disk there
    pc,             \* position of check_all_models.py
    i,              \* index into models of the loop of check_all_models.py
    out,            \* standard output of check_all_models.py, a sequence of lines
    reports,        \* the lines each finished loop iteration printed
    loadCalls,      \* the paths handed to onnx.load, in call order
    exitCode,       \* {} while check_all_models.py runs, then its exit status
    epc,            \* position of export_to_onnx.py
    eout,           \* standard output of export_to_onnx.py
    sourceLoads,    \* the weights files handed to YOLO(...), in call order
    exportCalls,    \* the keyword arguments of each model.export call, with its outcome
    eExitCode       \* {} while export_to_onnx.py runs, then its exit status

checkVars == << pc, i, out, reports, loadCalls, exitCode >>
exportVars == << epc, eout, sourceLoads, exportCalls, eExitCode >>
vars == << fs, pc, i, out, reports, loadCalls, exitCode,
           epc, eout, sourceLoads, exportCalls, eExitCode >>

(* ----------------------- check_all_models.py -------------------------- *)
\* The two lines printed when "import onnx" fails.
MissingDependencyLines ==
    << << "ERROR: onnx package not installed" >>,
       << "Install with: pip install onnx" >> >>

Banner ==
    << Rule, << "ONNX Model Version Check" >>, Rule, Blank >>

\* Attempt that reads the first opset import leniently: an empty list gives 0.
AttemptLenient(path) ==
    LET f == fs[path] IN
    IF f.kind = "missing"
    THEN [kind |-> "FileNotFoundError",
          e |-> << "[Errno 2] No such file or directory: '", path, "'" >>,
          ir_version |-> 0, opset_version |-> 0]
    ELSE IF f.kind = "unloadable"
    THEN [kind |-> "Exception", e |-> f.msg, ir_version |-> 0, opset_version |-> 0]
    ELSE [kind |-> "ok", e |-> <<>>, ir_version |-> f.ir,
          opset_version |-> IF f.opsets = <<>> THEN 0 ELSE f.opsets[1]]

\* Lines 24-26: onnx.load(path), model.ir_version, model.opset_import[0].version.
\* The outcome is the exception raised or the two versions extracted.
Attempt(path) ==
    LET f == fs[path] IN
    IF f.kind = "missing"
    THEN [kind |-> "FileNotFoundError",
          e |-> << "[Errno 2] No such file or directory: '", path, "'" >>,
          ir_version |-> 0, opset_version |-> 0]
    ELSE IF f.kind = "unloadable"
    THEN [kind |-> "Exception", e |-> f.msg, ir_version |-> 0, opset_version |-> 0]
    ELSE IF f.opsets = <<>>
    THEN [kind |-> "Exception", e |-> IndexErrorMessage,
          ir_version |-> 0, opset_version |-> 0]
    ELSE [kind |-> "ok", e |-> <<>>,
          ir_version |-> f.ir, opset_version |-> f.opsets[1]]

\* CompatLine with the comparison off by one.
CompatLineStrict(ir_version) ==
    IF ir_version < IRThreshold
    THEN << "  ", CheckMark, " Compatible with ONNX Runtime 1.16.3" >>
    ELSE << "  ", CrossMark, " Requires ONNX Runtime 1.17+ (IR version " >>
            \o Str(ir_version) \o << ")" >>

\* The compatibility branch, lines 33-36.
CompatLine(ir_version) ==
    IF ir_version <= IRThreshold
    THEN << "  ", CheckMark, " Compatible with ONNX Runtime 1.16.3" >>
    ELSE << "  ", CrossMark, " Requires ONNX Runtime 1.17+ (IR version " >>
            \o Str(ir_version) \o << ")" >>

\* SuccessReport whose verdict also holds the opset against the 1.16.3 ceiling.
SuccessReportOpsetGated(name, path, ir_version, opset_version) ==
    << << name, " (", path, "):" >>,
       << "  IR version: " >> \o Str(ir_version),
       << "  Opset version: " >> \o Str(opset_version),
       IF ir_version <= IRThreshold /\ opset_version <= 18
       THEN << "  ", CheckMark, " Compatible with ONNX Runtime 1.16.3" >>
       ELSE << "  ", CrossMark, " Requires ONNX Runtime 1.17+ (IR version " >>
               \o Str(ir_version) \o << ")" >>,
       Blank >>

\* What the try block prints once both versions are extracted, lines 28-38.
SuccessReport(name, path, ir_version, opset_version) ==
    << << name, " (", path, "):" >>,
       << "  IR version: " >> \o Str(ir_version),
       << "  Opset version: " >> \o Str(opset_version),
       CompatLine(ir_version),
       Blank >>

\* The FileNotFoundError handler, lines 39-41.
NotFoundReport(name, path) ==
    << << name, ": Model not found at ", path >>, Blank >>

\* LoadErrorReport that drops the exception's text.
LoadErrorReportNoText(name, e) ==
    << << name, ": Error loading model" >>, Blank >>

\* The generic handler, lines 42-44.
LoadErrorReport(name, e) ==
    << << name, ": Error loading model - " >> \o e, Blank >>

\* Lines 46-52.
SummaryBlock ==
    << Rule, << "ONNX Runtime Compatibility" >>, Rule, Blank,
       << "ONNX Runtime 1.16.3: Supports IR ", LessEq, " 9, Opset ", LessEq, " 18" >>,
       << "ONNX Runtime 1.19.0: Supports IR ", LessEq, " 10, Opset ", LessEq, " 21" >>,
       Blank >>

\* RecommendationBlock that prints only the rule for keeping the runtime.
RecommendationKeepOnly ==
    << << "Recommendation:" >>,
       << "  - If all models have IR ", LessEq, " 9: Keep 1.16.3" >> >>

\* Lines 53-55.
RecommendationBlock ==
    << << "Recommendation:" >>,
       << "  - If all models have IR ", LessEq, " 9: Keep 1.16.3" >>,
       << "  - If any model has IR = 10: Upgrade to 1.19.0" >> >>

\* import onnx succeeds.
ImportOnnx ==
    /\ pc = "import"
    /\ pc' = "banner"
    /\ UNCHANGED << fs, i, out, reports, loadCalls, exitCode >>
    /\ UNCHANGED exportVars

\* import onnx raises ImportError: two lines and sys.exit(1).
ImportOnnxFails ==
    /\ pc = "import"
    /\ out' = out \o MissingDependencyLines
    /\ exitCode' = {1}
    /\ pc' = "exited"
    /\ UNCHANGED << fs, i, reports, loadCalls >>
    /\ UNCHANGED exportVars

PrintBanner ==
    /\ pc = "banner"
    /\ out' = out \o Banner
    /\ pc' = "loop"
    /\ UNCHANGED << fs, i, reports, loadCalls, exitCode >>
    /\ UNCHANGED exportVars

\* One iteration of the for loop whose try block runs to its end.
CheckModelSuccess ==
    /\ pc = "loop"
    /\ i <= Len(models)
    /\ LET name == models[i].name
           path == models[i].path
           r == Attempt(path)
       IN  /\ r.kind = "ok"
           /\ loadCalls' = Append(loadCalls, path)
           /\ out' = out \o SuccessReport(name, path, r.ir_version, r.opset_version)
           /\ reports' = Append(reports,
                  SuccessReport(name, path, r.ir_version, r.opset_version))
    /\ i' = i + 1
    /\ UNCHANGED << fs, pc, exitCode >>
    /\ UNCHANGED exportVars

\* CheckModelNotFound whose handler leaves the loop.
CheckModelNotFoundBreaks ==
    /\ pc = "loop"
    /\ i <= Len(models)
    /\ LET name == models[i].name
           path == models[i].path
           r == Attempt(path)
       IN  /\ r.kind = "FileNotFoundError"
           /\ loadCalls' = Append(loadCalls, path)
           /\ out' = out \o NotFoundReport(name, path)
           /\ reports' = Append(reports, NotFoundReport(name, path))
    /\ i' = Len(models) + 1
    /\ UNCHANGED << fs, pc, exitCode >>
    /\ UNCHANGED exportVars

\* One iteration in which onnx.load raises FileNotFoundError.
CheckModelNotFound ==
    /\ pc = "loop"
    /\ i <= Len(models)
    /\ LET name == models[i].name
           path == models[i].path
           r == Attempt(path)
       IN  /\ r.kind = "FileNotFoundError"
           /\ loadCalls' = Append(loadCalls, path)
           /\ out' = out \o NotFoundReport(name, path)
           /\ reports' = Append(reports, NotFoundReport(name, path))
    /\ i' = i + 1
    /\ UNCHANGED << fs, pc, exitCode >>
    /\ UNCHANGED exportVars

\* CheckModelLoadError without the generic handler: the exception ends the run.
CheckModelLoadErrorUncaught ==
    /\ pc = "loop"
    /\ i <= Len(models)
    /\ Attempt(models[i].path).kind = "Exception"
    /\ loadCalls' = Append(loadCalls, models[i].path)
    /\ exitCode' = {1}
    /\ pc' = "exited"
    /\ UNCHANGED << fs, i, out, reports >>
    /\ UNCHANGED exportVars

\* One iteration in which the try block raises any other Exception.
CheckModelLoadError ==
    /\ pc = "loop"
    /\ i <= Len(models)
    /\ LET name == models[i].name
           path == models[i].path
           r == Attempt(path)
       IN  /\ r.kind = "Exception"
           /\ loadCalls' = Append(loadCalls, path)
           /\ out' = out \o LoadErrorReport(name, r.e)
           /\ reports' = Append(reports, LoadErrorReport(name, r.e))
    /\ i' = i + 1
    /\ UNCHANGED << fs, pc, exitCode >>
    /\ UNCHANGED exportVars

\* PrintSummary with the loop bound off by one: the last descriptor is skipped.
PrintSummaryEarly ==
    /\ pc = "loop"
    /\ i >= Len(models)
    /\ out' = out \o SummaryBlock \o RecommendationBlock
    /\ exitCode' = {0}
    /\ pc' = "exited"
    /\ UNCHANGED << fs, i, reports, loadCalls >>
    /\ UNCHANGED exportVars

\* The loop is exhausted: lines 46-55, then the interpreter exits with status 0.
PrintSummary ==
    /\ pc = "loop"
    /\ i > Len(models)
    /\ out' = out \o SummaryBlock \o RecommendationBlock
    /\ exitCode' = {0}
    /\ pc' = "exited"
    /\ UNCHANGED << fs, i, reports, loadCalls >>
    /\ UNCHANGED exportVars

(* ------------------------- export_to_onnx.py -------------------------- *)
SourceWeights == "yolo12n.pt"

LoadingLine == << "Loading YOLOv12n model..." >>

ExportingLine ==
    << "Exporting to ONNX format with opset 14 (compatible with ONNX Runtime 1.16)..." >>

CompletionLines ==
    << << "Export complete! Model saved as: yolo12n.onnx" >>,
       << "Note: Exported with opset 14 for ONNX Runtime 1.16 compatibility" >> >>

\* The keyword arguments of line 20.
ExportArgs == [format |-> "onnx", simplify |-> TRUE, opset |-> ExportOpset]

\* from ultralytics import YOLO succeeds and main() prints its first line.
StartMain ==
    /\ epc = "import"
    /\ eout' = Append(eout, LoadingLine)
    /\ epc' = "load"
    /\ UNCHANGED << sourceLoads, exportCalls, eExitCode >>
    /\ UNCHANGED << fs, checkVars >>

\* The import raises: traceback on standard error, exit status 1.
ImportUltralyticsFails ==
    /\ epc = "import"
    /\ eExitCode' = {1}
    /\ epc' = "exited"
    /\ UNCHANGED << eout, sourceLoads, exportCalls >>
    /\ UNCHANGED << fs, checkVars >>

\* YOLO('yolo12n.pt') returns; the export is announced.
LoadSource ==
    /\ epc = "load"
    /\ sourceLoads' = Append(sourceLoads, [weights |-> SourceWeights, ok |-> TRUE])
    /\ eout' = Append(eout, ExportingLine)
    /\ epc' = "export"
    /\ UNCHANGED << exportCalls, eExitCode >>
    /\ UNCHANGED << fs, checkVars >>

\* YOLO('yolo12n.pt') raises; nothing in main() catches it.
LoadSourceFails ==
    /\ epc = "load"
    /\ sourceLoads' = Append(sourceLoads, [weights |-> SourceWeights, ok |-> FALSE])
    /\ eExitCode' = {1}
    /\ epc' = "exited"
    /\ UNCHANGED << eout, exportCalls >>
    /\ UNCHANGED << fs, checkVars >>

\* ExportModel that passes a newer opset to model.export.
ExportModelOpset17 ==
    /\ epc = "export"
    /\ exportCalls' = Append(exportCalls,
           [args |-> [format |-> "onnx", simplify |-> TRUE, opset |-> 17], ok |-> TRUE])
    /\ epc' = "report"
    /\ UNCHANGED << eout, sourceLoads, eExitCode >>
    /\ UNCHANGED << fs, checkVars >>

\* model.export(...) returns.
ExportModel ==
    /\ epc = "export"
    /\ exportCalls' = Append(exportCalls, [args |-> ExportArgs, ok |-> TRUE])
    /\ epc' = "report"
    /\ UNCHANGED << eout, sourceLoads, eExitCode >>
    /\ UNCHANGED << fs, checkVars >>

\* Lines 22-23, then main() returns and the interpreter exits with status 0.
ReportCompletion ==
    /\ epc = "report"
    /\ eout' = eout \o CompletionLines
    /\ eExitCode' = {0}
    /\ epc' = "exited"
    /\ UNCHANGED << sourceLoads, exportCalls >>
    /\ UNCHANGED << fs, checkVars >>

\* model.export(...) raises; nothing in main() catches it.
ExportModelFails ==
    /\ epc = "export"
    /\ exportCalls' = Append(exportCalls, [args |-> ExportArgs, ok |-> FALSE])
    /\ eExitCode' = {1}
    /\ epc' = "exited"
    /\ UNCHANGED << eout, sourceLoads >>
    /\ UNCHANGED << fs, checkVars >>

(* --------------------------- specification ---------------------------- *)
Init ==
    /\ fs \in [Paths -> UNION { FileStates(p) : p \in Paths }]
    /\ \A p \in Paths : fs[p] \in FileStates(p)
    /\ pc = "import"
    /\ i = 1
    /\ out = <<>>
    /\ reports = <<>>
    /\ loadCalls = <<>>
    /\ exitCode = {}
    /\ epc = "import"
    /\ eout = <<>>
    /\ sourceLoads = <<>>
    /\ exportCalls = <<>>
    /\ eExitCode = {}

Next ==
    \/ ImportOnnx
    \/ ImportOnnxFails
    \/ PrintBanner
    \/ CheckModelSuccess
    \/ CheckModelNotFound
    \/ CheckModelLoadError
    \/ PrintSummary
    \/ StartMain
    \/ ImportUltralyticsFails
    \/ LoadSource
    \/ LoadSourceFails
    \/ ExportModel
    \/ ExportModelFails
    \/ ReportCompletion

Spec == Init /\ [][Next]_vars

(* ------------------------------ claims -------------------------------- *)
Contains(line, tok) == \E k \in 1..Len(line) : line[k] = tok

DigitValue(c) == CHOOSE d \in 0..9 : DigitChar[d + 1] = c

\* The number a sequence of digit characters (with an optional sign) writes.
RECURSIVE ParseDigits(_)
ParseDigits(ds) ==
    IF Len(ds) = 0 THEN 0
    ELSE 10 * ParseDigits(SubSeq(ds, 1, Len(ds) - 1)) + DigitValue(ds[Len(ds)])

ParseInt(ds) ==
    IF Len(ds) > 0 /\ ds[1] = "-" THEN 0 - ParseDigits(Tail(ds)) ELSE ParseDigits(ds)

IsDecimal(ds) ==
    /\ Len(ds) >= 1
    /\ \A k \in 1..Len(ds) : \E d \in 0..9 : DigitChar[d + 1] = ds[k]

RECURSIVE Flatten(_)
Flatten(blocks) ==
    IF Len(blocks) = 0 THEN <<>> ELSE Head(blocks) \o Flatten(Tail(blocks))

Reported == 1..Len(reports)
FileOf(k) == fs[models[k].path]
\* The file of descriptor k loads and both versions can be extracted.
Loads(k) == FileOf(k).kind = "model" /\ FileOf(k).opsets # <<>>

CompatibleText == << "  ", CheckMark, " Compatible with ONNX Runtime 1.16.3" >>

IsRequiresUpgrade(line, v) ==
    /\ Len(line) >= 5
    /\ line[1] = "  "
    /\ line[2] = CrossMark
    /\ line[3] = " Requires ONNX Runtime 1.17+ (IR version "
    /\ line[Len(line)] = ")"
    /\ IsDecimal(SubSeq(line, 4, Len(line) - 1))
    /\ ParseInt(SubSeq(line, 4, Len(line) - 1)) = v

\* The three shapes a per-model report takes.
IsNotFound(r, d) ==
    r = << << d.name, ": Model not found at ", d.path >>, <<>> >>

IsLoadError(r, d) ==
    /\ Len(r) = 2
    /\ Len(r[1]) >= 2
    /\ r[1][1] = d.name
    /\ r[1][2] = ": Error loading model - "
    /\ r[2] = <<>>

IsSuccess(r, d) ==
    /\ Len(r) = 5
    /\ r[1] = << d.name, " (", d.path, "):" >>
    /\ Len(r[2]) >= 2 /\ r[2][1] = "  IR version: "
    /\ Len(r[3]) >= 2 /\ r[3][1] = "  Opset version: "
    /\ \/ r[4] = CompatibleText
       \/ \E v \in IRVersions : IsRequiresUpgrade(r[4], v)
    /\ r[5] = <<>>

\* C1: the verdict line of a loaded model is 'Compatible with ONNX Runtime 1.16.3'
\* when its ir_version is at most 9 and 'Requires ONNX Runtime 1.17+ (IR version
\* <ir_version>)' when it is 10 or more; never both, never neither.
C1_VersionPartition ==
    \A k \in Reported :
        Loads(k) =>
            /\ Len(reports[k]) = 5
            /\ (FileOf(k).ir <= 9) => (reports[k][4] = CompatibleText)
            /\ (FileOf(k).ir >= 10) => IsRequiresUpgrade(reports[k][4], FileOf(k).ir)
            /\ (reports[k][4] = CompatibleText)
                   # IsRequiresUpgrade(reports[k][4], FileOf(k).ir)

C1_Witness ==
    /\ Len(reports) = 2
    /\ Loads(1) /\ FileOf(1).ir = 9 /\ reports[1][4] = CompatibleText
    /\ Loads(2) /\ FileOf(2).ir = 10
    /\ reports[2][4] = << "  ", CrossMark,
                          " Requires ONNX Runtime 1.17+ (IR version ", "1", "0", ")" >>

\* The report descriptor d gets when f is what is on disk at its path.
OwnReport(d, f) ==
    IF f.kind = "missing" THEN NotFoundReport(d.name, d.path)
    ELSE IF f.kind = "unloadable" THEN LoadErrorReport(d.name, f.msg)
    ELSE IF f.opsets = <<>> THEN LoadErrorReport(d.name, IndexErrorMessage)
    ELSE SuccessReport(d.name, d.path, f.ir, f.opsets[1])

\* C2: every descriptor is handed to onnx.load exactly once, in input order; the
\* k-th report belongs to the k-th descriptor and is determined by that
\* descriptor's own file alone (a missing file gives NotFound at its position);
\* a run that completes has one report per descriptor.
C2_PartialFailureIsolation ==
    /\ loadCalls = [k \in 1..Len(loadCalls) |-> models[k].path]
    /\ Len(loadCalls) = Len(reports)
    /\ Len(reports) = i - 1
    /\ Len(reports) <= Len(models)
    /\ (exitCode = {0}) => (Len(reports) = Len(models))
    /\ \A k \in Reported :
          /\ reports[k] = OwnReport(models[k], FileOf(k))
          /\ reports[k][1][1] = models[k].name
          /\ (FileOf(k).kind = "missing") => IsNotFound(reports[k], models[k])

C2_Witness ==
    /\ exitCode = {0}
    /\ FileOf(1).kind = "missing"
    /\ IsNotFound(reports[1], models[1])
    /\ Loads(2)
    /\ IsSuccess(reports[2], models[2])
    /\ loadCalls = << models[1].path, models[2].path >>

\* The lines of the check script's output that open with descriptor k's name.
LinesNaming(k) ==
    { n \in 1..Len(out) : Len(out[n]) >= 1 /\ out[n][1] = models[k].name }

\* C3: each descriptor gets exactly one of the three reports: NotFound when its
\* file does not exist, LoadError with the error's text verbatim when loading or
\* extraction fails otherwise, Success with the extracted versions otherwise; a
\* model's report is printed once, so no error report follows a Success report.
C3_OutcomeClassification ==
    \A k \in Reported :
        LET r == reports[k]
            d == models[k]
            f == FileOf(k)
        IN  /\ (f.kind = "missing") => (IsNotFound(r, d) /\ ~IsLoadError(r, d))
            /\ (f.kind = "unloadable") =>
                   (r = << << d.name, ": Error loading model - " >> \o f.msg, <<>> >>)
            /\ (f.kind = "model" /\ f.opsets = <<>>) =>
                   (r = << << d.name, ": Error loading model - " >>
                              \o IndexErrorMessage, <<>> >>)
            /\ Loads(k) =>
                   /\ IsSuccess(r, d)
                   /\ ParseInt(Tail(r[2])) = f.ir
                   /\ ParseInt(Tail(r[3])) = f.opsets[1]
            /\ (IsNotFound(r, d) \/ IsLoadError(r, d) \/ IsSuccess(r, d))
            /\ ~(IsNotFound(r, d) /\ IsLoadError(r, d))
            /\ ~(IsNotFound(r, d) /\ IsSuccess(r, d))
            /\ ~(IsLoadError(r, d) /\ IsSuccess(r, d))
            /\ Cardinality(LinesNaming(k)) = 1

C3_Witness ==
    /\ exitCode = {0}
    /\ FileOf(1).kind = "unloadable"
    /\ reports[1] = << << "YOLO", ": Error loading model - ", "Error parsing message" >>,
                       <<>> >>
    /\ Loads(2) /\ FileOf(2).ir = 10 /\ FileOf(2).opsets[1] = 21
    /\ IsSuccess(reports[2], models[2])
\* The files that loaded among the descriptors of a completed run.
Loaded == { k \in 1..Len(models) : Loads(k) }

KeepRule == << "  - If all models have IR ", LessEq, " 9: Keep 1.16.3" >>
UpgradeRule == << "  - If any model has IR = 10: Upgrade to 1.19.0" >>

Printed(line) == \E n \in 1..Len(out) : out[n] = line

\* C4 as stated: a completed run recommends keeping 1.16.3, and not upgrading,
\* when every loaded model has ir_version <= 9, and recommends upgrading to
\* 1.19.0 when some loaded model has ir_version > 9.
C4_RecommendationFollowsResults ==
    (exitCode = {0}) =>
        /\ (\A k \in Loaded : FileOf(k).ir <= 9) =>
               (Printed(KeepRule) /\ ~Printed(UpgradeRule))
        /\ (\E k \in Loaded : FileOf(k).ir > 9) => Printed(UpgradeRule)

\* C4 (amended): the recommendation is fixed text. Every completed run ends its
\* output with the heading and both conditional rules, whatever the results
\* were; no run prints one rule without the other.
C4_RecommendationIsStatic ==
    /\ (exitCode = {0}) =>
          /\ Len(out) >= 3
          /\ SubSeq(out, Len(out) - 2, Len(out)) =
                 << << "Recommendation:" >>, KeepRule, UpgradeRule >>
    /\ Printed(KeepRule) <=> Printed(UpgradeRule)
    /\ Printed(KeepRule) => (exitCode = {0})

C4_Witness ==
    /\ exitCode = {0}
    /\ Loaded = {1, 2}
    /\ \A k \in Loaded : FileOf(k).ir <= 9
    /\ Printed(KeepRule)
    /\ Printed(UpgradeRule)

\* A step of check_all_models.py.
CheckStep ==
    \/ ImportOnnx \/ ImportOnnxFails \/ PrintBanner \/ CheckModelSuccess
    \/ CheckModelNotFound \/ CheckModelLoadError \/ PrintSummary

\* C5: exit status 1 is the missing-dependency exit: the error and the install
\* hint are the whole output and no model was loaded or reported; past the
\* import the script always has a next step until it exits, and exits with 0,
\* whatever failed in the loop.
C5_ExitStatus ==
    /\ (exitCode = {1}) =>
          /\ out = << << "ERROR: onnx package not installed" >>,
                      << "Install with: pip install onnx" >> >>
          /\ loadCalls = <<>>
          /\ reports = <<>>
    /\ (pc = "exited") => (exitCode = {0} \/ exitCode = {1})
    /\ (pc # "exited") => (exitCode = {} /\ ENABLED CheckStep)
    /\ (pc = "exited" /\ loadCalls # <<>>) => (exitCode = {0})
    /\ (pc \in {"banner", "loop"}) =>
          ~Printed(<< "ERROR: onnx package not installed" >>)

C5_Witness ==
    /\ pc = "exited"
    /\ exitCode = {0}
    /\ FileOf(1).kind = "missing"
    /\ FileOf(2).kind = "unloadable"
    /\ Len(reports) = 2

\* C6 as stated: every failed load is reported, and the report of a failed load
\* (NotFound or LoadError) names both the model and its path.
C6_ErrorReportsNameAndPath ==
    \A k \in Reported :
        ~Loads(k) =>
            /\ Len(reports[k]) >= 1
            /\ Contains(reports[k][1], models[k].name)
            /\ Contains(reports[k][1], models[k].path)
\* C7: the verdict line depends on ir_version alone: two loaded models with the
\* same ir_version get the same verdict line whatever their opset versions and
\* their positions in the run; ir_version 9 is reported compatible also with
\* an opset above 18.
C7_VerdictIgnoresOpset ==
    \A j \in Reported : \A k \in Reported :
        (Loads(j) /\ Loads(k)) =>
            /\ (FileOf(j).ir = FileOf(k).ir) => (reports[j][4] = reports[k][4])
            /\ (FileOf(k).ir = 9) => (reports[k][4] = CompatibleText)

C7_Witness ==
    /\ Len(reports) = 2
    /\ Loads(1) /\ Loads(2)
    /\ FileOf(1).ir = 9 /\ FileOf(1).opsets[1] = 14
    /\ FileOf(2).ir = 9 /\ FileOf(2).opsets[1] = 21
    /\ reports[2][3] = << "  Opset version: ", "2", "1" >>
    /\ reports[1][4] = reports[2][4]
    /\ reports[2][4] = CompatibleText

EPrinted(line) == \E n \in 1..Len(eout) : eout[n] = line

CompletionText ==
    << << "Export complete! Model saved as: yolo12n.onnx" >>,
       << "Note: Exported with opset 14 for ONNX Runtime 1.16 compatibility" >> >>

\* C8: the export script calls model.export at most once, with format 'onnx',
\* opset 14 and simplify True, and only after YOLO('yolo12n.pt') returned; a run
\* that completes made exactly one such call; the two closing lines are printed
\* only after that call returned, end the output of a completed run, and are
\* absent when the load or the export raised.
C8_ExportOnceThenReport ==
    /\ Len(exportCalls) <= 1
    /\ Len(sourceLoads) <= 1
    /\ \A n \in 1..Len(exportCalls) :
          /\ exportCalls[n].args = [format |-> "onnx", simplify |-> TRUE, opset |-> 14]
          /\ sourceLoads = << [weights |-> "yolo12n.pt", ok |-> TRUE] >>
    /\ (eExitCode = {0}) =>
          /\ Len(exportCalls) = 1
          /\ exportCalls[1].ok
          /\ Len(eout) >= 2
          /\ SubSeq(eout, Len(eout) - 1, Len(eout)) = CompletionText
    /\ \A n \in 1..2 :
          EPrinted(CompletionText[n]) =>
              (Len(exportCalls) = 1 /\ exportCalls[1].ok /\ eExitCode = {0})
    /\ (eExitCode = {1}) =>
          (~EPrinted(CompletionText[1]) /\ ~EPrinted(CompletionText[2]))
    /\ (epc = "report") => (Len(exportCalls) = 1 /\ exportCalls[1].ok)

C8_Witness ==
    /\ eExitCode = {0}
    /\ Len(exportCalls) = 1
    /\ exportCalls[1].ok
    /\ EPrinted(CompletionText[1])
    /\ EPrinted(CompletionText[2])

\* The parsed model of descriptor k declares no opset import.
EmptyOpsetImport(k) == FileOf(k).kind = "model" /\ FileOf(k).opsets = <<>>

\* C9 as stated: a model that parses but has an empty opset-import list does
\* not get a per-model LoadError report.
C9_EmptyOpsetNotReported ==
    \A k \in Reported :
        EmptyOpsetImport(k) => ~IsLoadError(reports[k], models[k])

\* C9 (amended): the IndexError of opset_import[0] is raised inside the try
\* block, so the generic handler reports it as that model's LoadError with the
\* IndexError's text; the run goes on to the next descriptor and exits with 0.
C9_EmptyOpsetIsLoadError ==
    /\ \A k \in Reported :
          EmptyOpsetImport(k) =>
              /\ reports[k] = << << models[k].name, ": Error loading model - ",
                                    "list index out of range" >>, <<>> >>
              /\ exitCode # {1}
              /\ (pc = "exited") => (Len(reports) = Len(models) /\ exitCode = {0})

C9_Witness ==
    /\ exitCode = {0}
    /\ EmptyOpsetImport(1)
    /\ IsLoadError(reports[1], models[1])
    /\ Loads(2)
    /\ IsSuccess(reports[2], models[2])

TierLines ==
    << << "ONNX Runtime 1.16.3: Supports IR ", LessEq, " 9, Opset ", LessEq, " 18" >>,
       << "ONNX Runtime 1.19.0: Supports IR ", LessEq, " 10, Opset ", LessEq, " 21" >> >>

Occurrences(line) == Cardinality({ n \in 1..Len(out) : out[n] = line })

\* C10: a run that passed the import prints the two tier lines exactly once, in
\* the summary that follows the banner and the reports of all descriptors;
\* before the last report is out no tier line is, and the tier lines are the
\* same whatever the reports were.
C10_SummaryOnceAfterReports ==
    /\ (exitCode = {0}) =>
          /\ Len(reports) = Len(models)
          /\ \A n \in 1..2 : Occurrences(TierLines[n]) = 1
          /\ Len(out) = Len(Banner) + Len(Flatten(reports)) + 10
          /\ SubSeq(out, 1, Len(Banner)) = Banner
          /\ SubSeq(out, Len(Banner) + 1, Len(out) - 10) = Flatten(reports)
          /\ out[Len(out) - 8] = << "ONNX Runtime Compatibility" >>
          /\ out[Len(out) - 5] = TierLines[1]
          /\ out[Len(out) - 4] = TierLines[2]
    /\ (exitCode # {0}) => \A n \in 1..2 : Occurrences(TierLines[n]) = 0
    /\ (pc = "loop") => (out = Banner \o Flatten(reports))

C10_Witness ==
    /\ exitCode = {0}
    /\ Loads(1) /\ IsSuccess(reports[1], models[1])
    /\ FileOf(2).kind = "missing" /\ IsNotFound(reports[2], models[2])
    /\ Occurrences(TierLines[1]) = 1
    /\ Occurrences(TierLines[2]) = 1
====
